---------------------------- MODULE Spec2Model ----------------------------
(***************************************************************************)
(* nextjs-typed-api: the request adapter (createApiHandler) of             *)
(* lib/api-builder.ts and the client request helper (createClient,         *)
(* buildRoute) of lib/api-builder.ts and src/route-helpers.ts.             *)
(*                                                                         *)
(* JavaScript values are records tagged by a field t; objects whose values *)
(* are strings ("mappings") are functions from their keys to strings.      *)
(* JavaScript strings that the code searches or rewrites (route templates, *)
(* URLs, cache keys) are sequences of text atoms, so that includes() and   *)
(* replace() are computed on the text and not assumed.                     *)
(***************************************************************************)
EXTENDS Integers, Sequences, FiniteSets, TLC

(***************************************************************************)
(* Bounds of the model.                                                    *)
(***************************************************************************)
\* longest query string (number of key=value entries) of a request
MaxQuery == 2
\* most properties of an input object handed to the client helper
MaxInput == 2

(***************************************************************************)
(* Values.                                                                 *)
(***************************************************************************)
Methods == {"GET", "POST", "PUT", "DELETE"}
Keys == {"id", "name"}
\* values of query-string entries and body fields; path parameters are never empty
Vals == {"", "a"}
ParamVals == {"a", "b"}

Undefined == [t |-> "undefined"]
None == [t |-> "none"]
EmptyMap == [k \in {} |-> "a"]
Mappings == UNION {[D -> Vals] : D \in SUBSET Keys}

\* the entries of url.searchParams, in the order of the query string
QueryEntries == {<<"id", "">>, <<"id", "a">>, <<"name", "a">>}
Queries == UNION {[1..n -> QueryEntries] : n \in 0..MaxQuery}

\* context of a route function call: absent, or {params: <mapping>}
Contexts == {Undefined, EmptyMap} \cup [{"id"} -> ParamVals]

\* what req.json() finds in the request body
BodyAbsent == [t |-> "absent"]
BodyMalformed == [t |-> "malformed"]
JsonNull == [t |-> "null"]
JsonObj(m) == [t |-> "obj", o |-> m, u |-> {}]
Bodies == {BodyAbsent, BodyMalformed, JsonNull} \cup {JsonObj(m) : m \in Mappings}

\* values a user handler may return: plain JSON data, an object with a
\* property whose value is undefined, nothing (undefined), a BigInt
ObjWithUndefined == [t |-> "obj", o |-> [id |-> "a"], u |-> {"name"}]
JsonStr(s) == [t |-> "str", s |-> s]
BigIntValue == [t |-> "bigint"]
ReturnValues ==
    {JsonObj([id |-> "a"]), JsonObj(EmptyMap), JsonStr("ok"), JsonNull,
     ObjWithUndefined, Undefined, BigIntValue}

\* values a user handler may throw or reject with
ErrorOf(m) == [t |-> "Error", message |-> m]
ThrownValues ==
    {ErrorOf("boom"), ErrorOf(""), JsonStr("boom"),
     JsonObj([message |-> "boom"]), Undefined}

(***************************************************************************)
(* Handlers (lib/api-builder.ts 4-46) and the route modules of src/app.    *)
(***************************************************************************)
PlainHandler == [t |-> "function"]
withSchema(schema) == [t |-> "object", schema |-> schema, isSchemaHandler |-> TRUE]

\* z.object schemas of strings: the fields in declaration order, each required
\* or optional, with the message of its min(1) check and its default if it has
\* one (the format check of email is never reached: no input has the key)
Field(name, required, hasMin, min1, hasDefault, default) ==
    [name |-> name, required |-> required, hasMin |-> hasMin, min1 |-> min1,
     hasDefault |-> hasDefault, default |-> default]
UserIdSchema == <<Field("id", TRUE, TRUE, "User ID is required", FALSE, "")>>
UpdateUserSchema ==
    <<Field("id", TRUE, TRUE, "User ID is required", FALSE, ""),
      Field("name", FALSE, TRUE, "Name cannot be empty", FALSE, ""),
      Field("email", FALSE, FALSE, "", FALSE, "")>>
GetUsersSchema ==
    <<Field("limit", FALSE, FALSE, "", TRUE, "10"),
      Field("offset", FALSE, FALSE, "", TRUE, "0")>>
CreateUserSchema ==
    <<Field("name", TRUE, TRUE, "Name is required", FALSE, ""),
      Field("email", TRUE, FALSE, "", FALSE, "")>>

UsersRoute == [GET |-> PlainHandler, POST |-> PlainHandler]
UsersSchemaRoute ==
    [GET |-> withSchema(GetUsersSchema), POST |-> withSchema(CreateUserSchema)]
UserIdRoute ==
    [GET |-> withSchema(UserIdSchema), PUT |-> withSchema(UpdateUserSchema),
     DELETE |-> withSchema(UserIdSchema)]
UserIdPlainRoute == [GET |-> PlainHandler, PUT |-> PlainHandler, DELETE |-> PlainHandler]
\* a key registered with no handler value: the only way handlers[method] is falsy
\* inside a route function
PartialRoute == [GET |-> PlainHandler, POST |-> Undefined]
RouteModules == {UsersRoute, UsersSchemaRoute, UserIdRoute, UserIdPlainRoute, PartialRoute}

(***************************************************************************)
(* Values of the client helper.  A string is a sequence of text atoms: "[" *)
(* and "]" are atoms of their own, so the placeholder [id] is the three     *)
(* atoms "[", "id", "]", and "/api/users/[id]" begins with the atom of     *)
(* "/api/users", so that startsWith() is computed on the text as well.     *)
(***************************************************************************)
Str(atoms) == [t |-> "string", s |-> atoms]
JsTrue == [t |-> "boolean", b |-> TRUE]
JsFalse == [t |-> "boolean", b |-> FALSE]

\* the keys of ApiRoutes (src/api-client.ts)
Templates ==
    {<<"/api/users">>, <<"/api/users", "/", "[", "id", "]">>,
     <<"/api/posts", "/", "[", "slug", "]">>}

InputKeys == {"id", "slug", "limit"}
\* property values: a plain string, a string that reads like a placeholder, a
\* string that is a replacement pattern, and undefined
StringVals == {Str(<<"42">>), Str(<<"[", "limit", "]">>), Str(<<"$&">>)}
InputVals == StringVals \cup {Undefined}

Distinct(entries) ==
    \A m, n \in DOMAIN entries : entries[m][1] = entries[n][1] => m = n
\* objects as Object.entries lists them: their properties in insertion order
ObjectsOf(vals) ==
    {e \in UNION {[1..n -> InputKeys \X vals] : n \in 0..MaxInput} : Distinct(e)}
JsObject(entries) == [t |-> "object", entries |-> entries]
Inputs == {Undefined} \cup {JsObject(e) : e \in ObjectsOf(InputVals)}
RouteParams == ObjectsOf(StringVals)
QueryOptions ==
    {Undefined} \cup {[enabled |-> e] : e \in {Undefined, JsTrue, JsFalse}}

\* an entry of the cache of the data-fetching library
Entry(data, validating) == [data |-> data, isValidating |-> validating]
ServerData == [t |-> "data", from |-> "server"]
CachedData == [t |-> "data", from |-> "cache"]
NoCache == [k \in {} |-> Entry(None, FALSE)]
CacheSeeds ==
    {NoCache, [k \in {Str(<<"/api/users">>)} |-> Entry(CachedData, FALSE)]}

VARIABLES
    handlers,   \* the object given to createApiHandler
    routes,     \* the methods for which createApiHandler made a route function
    inv,        \* the current call of a route function
    call,       \* the current call of the client helper
    cache,      \* the cache of the data-fetching library, by key
    requests,   \* the URLs of the requests in flight
    mutations,  \* the calls of trigger of a useMutation hook
    invocations \* the concurrent calls of route functions

vars == <<handlers, routes, inv, call, cache, requests, mutations, invocations>>
server == <<handlers, routes, inv, invocations>>
client == <<call, cache, requests, mutations>>

(***************************************************************************)
(* Helpers of the language and of the platform.                            *)
(***************************************************************************)
\* {...a, ...b}: the own properties of a, overwritten by those of b
Spread(a, b) ==
    [k \in (DOMAIN a) \cup (DOMAIN b) |-> IF k \in DOMAIN b THEN b[k] ELSE a[k]]

\* the properties that spreading a value copies: those of an object, none of
\* undefined or null
OwnProps(v) ==
    IF v.t = "obj" THEN v.o ELSE EmptyMap

\* ...context?.params
SpreadParams(context) ==
    IF context = Undefined THEN EmptyMap ELSE context

\* Object.fromEntries(url.searchParams.entries()): each entry is assigned in
\* turn, so a repeated key keeps its last value
RECURSIVE fromEntries(_)
fromEntries(entries) ==
    IF entries = <<>> THEN EmptyMap
    ELSE LET n == Len(entries)
             e == entries[n]
         IN  Spread(fromEntries(SubSeq(entries, 1, n - 1)), [k \in {e[1]} |-> e[2]])

Thrown(e) == [t |-> "throw", e |-> e]
Ok(v) == [t |-> "ok", v |-> v]

\* await req.json(): the parsed body, or a rejection when there is no body or
\* it is not JSON
ReadJson(body) ==
    IF body.t \in {"absent", "malformed"}
    THEN Thrown(ErrorOf("Unexpected end of JSON input"))
    ELSE Ok(body)

\* variant: the rejection of req.json() not caught
JsonNoCatch(body) == ReadJson(body)

\* req.json().catch(() => ({}))
JsonOrEmpty(body) ==
    LET r == ReadJson(body)
    IN  IF r.t = "throw" THEN Ok(JsonObj(EmptyMap)) ELSE r

\* JSON.stringify as Response.json uses it, read back by the receiver: undefined
\* has no JSON text and a BigInt makes stringify throw (both a TypeError),
\* properties whose value is undefined are dropped
SerializeJson(v) ==
    CASE v.t = "undefined" -> Thrown(ErrorOf("Value is not JSON serializable"))
      [] v.t = "bigint" -> Thrown(ErrorOf("Do not know how to serialize a BigInt"))
      [] v.t = "obj" -> [t |-> "ok", json |-> [v EXCEPT !.u = {}]]
      [] OTHER -> [t |-> "ok", json |-> v]

\* Response.json(data, {status})
ResponseJson(data, status) ==
    LET s == SerializeJson(data)
    IN  IF s.t = "throw" THEN s
        ELSE [t |-> "return", response |-> [status |-> status, body |-> s.json]]

\* schema.safeParse(input) of a z.object of strings: one issue per field that
\* is required and missing, or present and shorter than its minimum; the data
\* are the fields of the schema that the input has or that have a default
RECURSIVE Issues(_, _)
Issues(schema, input) ==
    IF schema = <<>> THEN <<>>
    ELSE LET f == Head(schema)
             here ==
                 IF f.name \notin DOMAIN input
                 THEN IF f.required
                      THEN <<[code |-> "invalid_type", path |-> <<f.name>>,
                              message |-> "Required"]>>
                      ELSE <<>>
                 ELSE IF f.hasMin /\ input[f.name] = ""
                      THEN <<[code |-> "too_small", path |-> <<f.name>>,
                              message |-> f.min1]>>
                      ELSE <<>>
         IN  here \o Issues(Tail(schema), input)

FieldNames(schema) == {schema[n].name : n \in DOMAIN schema}
FieldOf(schema, name) == schema[CHOOSE n \in DOMAIN schema : schema[n].name = name]
Defaulted(schema) ==
    {schema[n].name : n \in {m \in DOMAIN schema : schema[m].hasDefault}}

safeParse(schema, input) ==
    LET issues == Issues(schema, input)
    IN  IF issues = <<>>
        THEN [success |-> TRUE,
              data |-> [k \in ((DOMAIN input) \cap FieldNames(schema))
                                \cup Defaulted(schema) |->
                            IF k \in DOMAIN input THEN input[k]
                            ELSE FieldOf(schema, k).default]]
        ELSE [success |-> FALSE, error |-> [issues |-> issues]]

(***************************************************************************)
(* The request adapter: createApiHandler (lib/api-builder.ts 48-132).      *)
(*                                                                         *)
(* One call of a route function is the record inv.  Its code runs in       *)
(* pieces separated by its two awaits: the read of the body (line 69) and  *)
(* the handler's result (lines 93, 100).                                   *)
(***************************************************************************)
NewInvocation(method, query, context) ==
    [pc |-> "running", method |-> method, query |-> query, context |-> context,
     body |-> None, rawInput |-> None, handlerInput |-> None, calls |-> 0,
     outcome |-> None, settled |-> None, logged |-> <<>>,
     response |-> None, escaped |-> None]

Idle == [NewInvocation("GET", <<>>, Undefined) EXCEPT !.pc = "idle"]

\* the async route function settles: it returns a response, or an exception
\* that nothing caught rejects its promise
Finish(i, r) ==
    IF r.t = "throw"
    THEN [i EXCEPT !.pc = "done", !.escaped = r.e]
    ELSE [i EXCEPT !.pc = "done", !.response = r.response]

ErrorBody(message) == JsonObj([error |-> message])

\* variant: the message test dropped, every handler fault reported alike
MessageAlwaysGeneric(error) == "Internal server error"

MessageOf(error) ==
    IF error.t = "Error" THEN error.message ELSE "Internal server error"

\* catch (error) { ... }
CatchClause(i, error) ==
    Finish([i EXCEPT !.logged = Append(@, error)],
           ResponseJson(ErrorBody(MessageOf(error)), 500))

\* variant: the statement outside any try block
InTryNoCatch(i, r) == Finish(i, r)

\* a statement of the try block that ends the function or throws
InTry(i, r) ==
    IF r.t = "throw" THEN CatchClause(i, r.e) ELSE Finish(i, r)

\* what the user function may do when it is called, and how the awaited
\* value may settle
HandlerOutcomes ==
    {Thrown(e) : e \in ThrownValues}
        \cup {[t |-> "value", v |-> v] : v \in ReturnValues}
        \cup {[t |-> "promise"]}

Settlements(i) ==
    IF i.outcome.t = "value"
    THEN {[t |-> "resolve", v |-> i.outcome.v]}
    ELSE {[t |-> "resolve", v |-> v] : v \in ReturnValues}
            \cup {[t |-> "reject", e |-> e] : e \in ThrownValues}

\* variant: a handler that throws is called a second time
CallHandlerRetrying(i, input, o) ==
    LET j == [i EXCEPT !.calls = IF o.t = "throw" THEN @ + 2 ELSE @ + 1,
                       !.handlerInput = input, !.outcome = o]
    IN  IF o.t = "throw"
        THEN CatchClause(j, o.e)
        ELSE [j EXCEPT !.pc = "awaitHandler"]

\* await handler(input, {req, params}): the call itself
CallHandler(i, input, o) ==
    LET j == [i EXCEPT !.calls = @ + 1, !.handlerInput = input, !.outcome = o]
    IN  IF o.t = "throw"
        THEN CatchClause(j, o.e)
        ELSE [j EXCEPT !.pc = "awaitHandler"]

ValidationBody(issues) ==
    [t |-> "validation", error |-> "Validation failed", details |-> issues]

IsSchemaHandler(handlerDef) ==
    handlerDef.t = "object" /\ "isSchemaHandler" \in DOMAIN handlerDef

\* variant: the validation result ignored
DispatchNoValidation(i, o) == CallHandler(i, i.rawInput, o)

\* from "Check if this is a handler with schema" to the handler call
Dispatch(i, o) ==
    LET handlerDef == handlers[i.method]
    IN  IF IsSchemaHandler(handlerDef)
        THEN LET validationResult == safeParse(handlerDef.schema, i.rawInput)
             IN  IF ~validationResult.success
                 THEN InTry(i, ResponseJson(
                                   ValidationBody(validationResult.error.issues), 400))
                 ELSE CallHandler(i, validationResult.data, o)
        ELSE CallHandler(i, i.rawInput, o)

\* variant: the two spreads in the other order
MergeParamsFirst(source, context) == Spread(SpreadParams(context), source)

MergeInput(source, context) == Spread(source, SpreadParams(context))

\* a route function, from its call to its first await or its return
RouteFunction(method, query, context, o) ==
    LET i == NewInvocation(method, query, context)
        handlerDef == handlers[method]
    IN  IF handlerDef = Undefined
        THEN Finish(i, ResponseJson(
                           ErrorBody("Method " \o method \o " not allowed"), 405))
        ELSE IF method = "GET" \/ method = "DELETE"
             THEN Dispatch([i EXCEPT !.rawInput =
                                         MergeInput(fromEntries(query), context)], o)
             ELSE [i EXCEPT !.pc = "awaitBody"]

\* the body has been read: the rest of the else branch, then as above
AfterBody(i, body, o) ==
    LET r == JsonOrEmpty(body)
        j == [i EXCEPT !.body = body]
    IN  IF r.t = "throw"
        THEN CatchClause(j, r.e)
        ELSE Dispatch([j EXCEPT !.rawInput = MergeInput(OwnProps(r.v), i.context)], o)

\* variant: the handler's promise serialized without being awaited
AfterHandlerNoAwait(i, s) ==
    InTry([i EXCEPT !.settled = s], ResponseJson(JsonObj(EmptyMap), 200))

\* the awaited handler result has settled
AfterHandler(i, s) ==
    LET j == [i EXCEPT !.settled = s]
    IN  IF s.t = "reject"
        THEN CatchClause(j, s.e)
        ELSE InTry(j, ResponseJson(s.v, 200))

\* createApiHandler: one route function per key of handlers
createApiHandler(h) == DOMAIN h

Init ==
    /\ handlers \in RouteModules
    /\ routes = createApiHandler(handlers)
    /\ inv = Idle
    /\ call = None
    /\ cache = NoCache
    /\ requests = {}
    /\ mutations = None
    /\ invocations = None

Quiet == inv.pc = "idle"

\* the router calls the route function exported for the request's method
Invoke ==
    /\ Quiet
    /\ \E method \in routes, query \in Queries, context \in Contexts,
          o \in HandlerOutcomes :
            inv' = RouteFunction(method, query, context, o)
    /\ UNCHANGED <<handlers, routes, invocations, client>>

\* a request whose method has no route function: nothing of the adapter runs
RequestUnrouted ==
    /\ Quiet
    /\ \E method \in Methods \ routes, query \in Queries, context \in Contexts :
            inv' = [NewInvocation(method, query, context) EXCEPT !.pc = "unrouted"]
    /\ UNCHANGED <<handlers, routes, invocations, client>>

BodyArrives ==
    /\ inv.pc = "awaitBody"
    /\ \E body \in Bodies, o \in HandlerOutcomes : inv' = AfterBody(inv, body, o)
    /\ UNCHANGED <<handlers, routes, invocations, client>>

HandlerSettles ==
    /\ inv.pc = "awaitHandler"
    /\ \E s \in Settlements(inv) : inv' = AfterHandler(inv, s)
    /\ UNCHANGED <<handlers, routes, invocations, client>>

\* the router has taken the outcome of the call; the next request may come
Return ==
    /\ inv.pc \in {"done", "unrouted"}
    /\ inv' = Idle
    /\ UNCHANGED <<handlers, routes, invocations, client>>

Next == Invoke \/ RequestUnrouted \/ BodyArrives \/ HandlerSettles \/ Return

Spec == Init /\ [][Next]_vars

(***************************************************************************)
(* Properties of the request adapter.                                      *)
(***************************************************************************)
Done == inv.pc = "done"
Params == IF inv.context = Undefined THEN EmptyMap ELSE inv.context
HandlerDef == handlers[inv.method]
ReadsQuery == inv.method \in {"GET", "DELETE"}
HandlerFailed ==
    \/ inv.outcome.t = "throw"
    \/ inv.settled.t = "reject"
FailedWith == IF inv.outcome.t = "throw" THEN inv.outcome.e ELSE inv.settled.e

\* C1: every call of a route function ends with exactly one response and
\* never with an exception: while it runs there is no response yet, when it
\* is done there is one, with one of the four statuses, and nothing escaped.
C1_OneResponseNeverThrows ==
    /\ inv.escaped = None
    /\ inv.pc \in {"idle", "running", "awaitBody", "awaitHandler"} => inv.response = None
    /\ Done => /\ inv.response # None
               /\ inv.response.status \in {200, 400, 405, 500}

\* a handler whose promise resolves to a BigInt: Response.json throws inside
\* the try block and the call still ends with a response
C1_Witness ==
    /\ Done
    /\ inv.settled = [t |-> "resolve", v |-> BigIntValue]
    /\ inv.response # None
    /\ inv.response.status = 500

HasJsonText(v) == v.t \notin {"undefined", "bigint"}
PlainJson(v) == v.t \in {"str", "null"} \/ (v.t = "obj" /\ v.u = {})
WithoutUndefined(v) == IF v.t = "obj" THEN JsonObj(v.o) ELSE v

NotAllowedText ==
    [GET |-> "Method GET not allowed", POST |-> "Method POST not allowed",
     PUT |-> "Method PUT not allowed", DELETE |-> "Method DELETE not allowed"]
Registered(method) ==
    method \in DOMAIN handlers /\ handlers[method] # Undefined

\* C3 as stated: a request whose method has no registered handler is
\* answered 405 with body {error: "Method <M> not allowed"} and calls no
\* handler.
C3_UnregisteredIs405 ==
    (inv.pc \in {"done", "unrouted"} /\ ~Registered(inv.method))
        => /\ inv.response # None
           /\ inv.response.status = 405
           /\ inv.response.body = JsonObj([error |-> NotAllowedText[inv.method]])
           /\ inv.calls = 0

Rejected(schema, input) ==
    \E n \in DOMAIN schema :
        \/ schema[n].required /\ schema[n].name \notin DOMAIN input
        \/ /\ schema[n].hasMin
           /\ schema[n].name \in DOMAIN input
           /\ input[schema[n].name] = ""
MissingRequired(schema, input) ==
    {schema[n].name : n \in {m \in DOMAIN schema :
        schema[m].required /\ schema[m].name \notin DOMAIN input}}
InPath(name, path) == \E n \in DOMAIN path : path[n] = name

\* C4: a merged input that the validator rejects is answered 400 with
\* {error: "Validation failed", details}, details a non-empty list of entries
\* with a path and a message, one of them naming each missing required field.
C4_ValidationFailureIs400 ==
    (Done /\ Registered(inv.method) /\ IsSchemaHandler(HandlerDef)
          /\ Rejected(HandlerDef.schema, inv.rawInput))
        => /\ inv.response.status = 400
           /\ inv.response.body.t = "validation"
           /\ inv.response.body.error = "Validation failed"
           /\ LET details == inv.response.body.details
              IN  /\ Len(details) > 0
                  /\ \A n \in DOMAIN details :
                        {"path", "message"} \subseteq DOMAIN details[n]
                  /\ \A f \in MissingRequired(HandlerDef.schema, inv.rawInput) :
                        \E n \in DOMAIN details : InPath(f, details[n].path)

\* a POST with a body without the required name
C4_Witness ==
    /\ Done
    /\ inv.method = "POST"
    /\ Registered(inv.method)
    /\ IsSchemaHandler(HandlerDef)
    /\ inv.body = JsonObj([id |-> "a"])
    /\ inv.response.status = 400
    /\ inv.response.body.details[1].path = <<"name">>
    /\ inv.calls = 0

ExposesMessage(e) ==
    e.t = "Error" \/ (e.t = "obj" /\ "message" \in DOMAIN e.o)
ExposedMessage(e) == IF e.t = "Error" THEN e.message ELSE e.o.message

\* C5 as stated: a handler fault is answered 500 with {error: m}, m the
\* thrown value's message if it exposes one, "Internal server error" if not.
C5_MessageOfAnyThrownValue ==
    (Done /\ HandlerFailed)
        => /\ inv.response.status = 500
           /\ inv.response.body =
                JsonObj([error |-> IF ExposesMessage(FailedWith)
                                   THEN ExposedMessage(FailedWith)
                                   ELSE "Internal server error"])

\* C5 amended: a handler fault is answered 500 with {error: m}, m the message
\* of the thrown value if it is an Error, "Internal server error" for every
\* other thrown value, one that carries a message property included.
C5_MessageOfErrorOnly ==
    (Done /\ HandlerFailed)
        => /\ inv.response.status = 500
           /\ inv.response.body =
                JsonObj([error |-> IF FailedWith.t = "Error"
                                   THEN FailedWith.message
                                   ELSE "Internal server error"])
           /\ DOMAIN inv.response.body.o = {"error"}

\* a promise rejected with an Error "boom"
C5_Witness ==
    /\ Done
    /\ inv.settled = [t |-> "reject", e |-> ErrorOf("boom")]
    /\ inv.response = [status |-> 500, body |-> JsonObj([error |-> "boom"])]

\* the query-string mapping: of a repeated key the last value
QueryKeys == {inv.query[n][1] : n \in DOMAIN inv.query}
LastIn(key) ==
    CHOOSE n \in DOMAIN inv.query :
        /\ inv.query[n][1] = key
        /\ \A m \in DOMAIN inv.query : inv.query[m][1] = key => m <= n
BodyKeys == IF inv.body.t = "obj" THEN DOMAIN inv.body.o ELSE {}
SourceKeys == IF ReadsQuery THEN QueryKeys ELSE BodyKeys
SourceValue(key) ==
    IF ReadsQuery THEN inv.query[LastIn(key)][2] ELSE inv.body.o[key]

\* C6: the merged input has the keys of the query string (GET, DELETE) or of
\* the parsed body (other methods) and those of the path parameters; a path
\* parameter keeps its value, every other key the value of the query or body;
\* a plain handler is called with exactly this input.
C6_PathParamsWin ==
    inv.rawInput # None
        => /\ DOMAIN inv.rawInput = SourceKeys \cup DOMAIN Params
           /\ \A k \in DOMAIN Params : inv.rawInput[k] = Params[k]
           /\ \A k \in SourceKeys \ DOMAIN Params : inv.rawInput[k] = SourceValue(k)
           /\ (HandlerDef = PlainHandler /\ inv.calls > 0)
                => inv.handlerInput = inv.rawInput

\* query id=a&name=a with path parameter id = "b"
C6_Witness ==
    /\ inv.method = "GET"
    /\ inv.query = <<(<<"id", "a">>), (<<"name", "a">>)>>
    /\ inv.context = [id |-> "b"]
    /\ inv.calls = 1
    /\ inv.handlerInput = [id |-> "b", name |-> "a"]

Unparseable == inv.body.t \in {"absent", "malformed"}

\* C7 as stated: with a body that is not JSON the handler is called with
\* exactly the path parameters, and there is no 500 because of the body.
C7_HandlerCalledWithParams ==
    (inv.pc \in {"awaitHandler", "done"} /\ ~ReadsQuery /\ Unparseable)
        => /\ inv.calls = 1
           /\ inv.handlerInput = Params

\* C7 amended: with a body that is not JSON the merged input is exactly the
\* path parameters; a plain handler is called with it, a validator is run
\* against it (400 if it rejects it, else the handler is called with the
\* validated value); a 500 only comes from the handler or its result.
C7_InputIsParams ==
    (inv.pc \in {"awaitHandler", "done"} /\ ~ReadsQuery /\ Unparseable)
        => /\ inv.rawInput = Params
           /\ HandlerDef = PlainHandler
                => (inv.calls = 1 /\ inv.handlerInput = Params)
           /\ IsSchemaHandler(HandlerDef)
                => IF Rejected(HandlerDef.schema, Params)
                   THEN inv.calls = 0 /\ inv.response.status = 400
                   ELSE inv.calls = 1
           /\ (Done /\ inv.response.status = 500)
                => (HandlerFailed \/ ~HasJsonText(inv.settled.v))

\* a POST with a malformed body and no path parameters: the handler gets {}
C7_Witness ==
    /\ Done
    /\ inv.method = "POST"
    /\ inv.body = BodyMalformed
    /\ inv.context = Undefined
    /\ inv.calls = 1
    /\ inv.handlerInput = EmptyMap
    /\ inv.response.status = 200

\* C18: a call of a route function calls the user handler at most once:
\* exactly once when the response is 200 or 500 (a 500 comes from the handler
\* or from its result), never when it is 405 or the 400 of a validator.
C18_SingleAttempt ==
    /\ inv.calls <= 1
    /\ Done => /\ inv.response.status \in {200, 500} => inv.calls = 1
               /\ (inv.response.status = 500 /\ HandlerFailed) => inv.calls = 1
               /\ inv.response.status \in {405, 400} => inv.calls = 0

\* a handler that threw "boom": one call, answered 500
C18_Witness ==
    /\ Done
    /\ inv.outcome = Thrown(ErrorOf("boom"))
    /\ inv.calls = 1
    /\ inv.response.status = 500

(***************************************************************************)
(* Route functions called while others are suspended.  Each call has its   *)
(* own request and its own locals; what the calls share is the handlers    *)
(* object that createApiHandler closed over.                               *)
(***************************************************************************)
InvocationIds == {"A", "B"}
ConcurrentRequests ==
    [method : Methods, query : {<<>>, <<(<<"id", "a">>)>>},
     context : {Undefined, [id |-> "b"]},
     body : {BodyMalformed, JsonObj([name |-> "a"])}]
ConcurrentOutcomes ==
    {Thrown(ErrorOf("boom")), [t |-> "value", v |-> JsonObj([id |-> "a"])],
     [t |-> "promise"]}
ConcurrentSettlements(i) ==
    Settlements(i) \cap
        {[t |-> "resolve", v |-> JsonObj([id |-> "a"])], [t |-> "resolve", v |-> Undefined],
         [t |-> "reject", e |-> ErrorOf("boom")]}

NotInvoked == [req |-> None, i |-> Idle, during |-> {}]
InFlight(a) == invocations[a].i.pc \in {"awaitBody", "awaitHandler"}

\* variant: the body read from the request that came in last
RequestBodyOfLatest(a) ==
    LET later == {b \in InvocationIds : a \in invocations[b].during}
    IN  IF later = {} THEN invocations[a].req.body
        ELSE invocations[CHOOSE b \in later : TRUE].req.body

\* req.json() of a call reads the body of the request it was called with
RequestBody(a) == invocations[a].req.body

InitConcurrent ==
    /\ handlers \in RouteModules
    /\ routes = createApiHandler(handlers)
    /\ inv = Idle
    /\ call = None
    /\ cache = NoCache
    /\ requests = {}
    /\ mutations = None
    /\ invocations = [a \in InvocationIds |-> NotInvoked]

\* the router calls a route function while other calls may be suspended
ConcurrentInvoke ==
    /\ \E a \in InvocationIds, req \in ConcurrentRequests, o \in ConcurrentOutcomes :
        /\ invocations[a].req = None
        /\ req.method \in routes
        /\ invocations' = [invocations EXCEPT ![a] =
                [req |-> req,
                 i |-> RouteFunction(req.method, req.query, req.context, o),
                 during |-> {b \in InvocationIds : InFlight(b)}]]
    /\ UNCHANGED <<handlers, routes, inv, client>>

ConcurrentBodyArrives ==
    /\ \E a \in InvocationIds, o \in ConcurrentOutcomes :
        /\ invocations[a].i.pc = "awaitBody"
        /\ invocations' = [invocations EXCEPT ![a].i =
                AfterBody(invocations[a].i, RequestBody(a), o)]
    /\ UNCHANGED <<handlers, routes, inv, client>>

ConcurrentHandlerSettles ==
    /\ \E a \in InvocationIds :
        /\ invocations[a].i.pc = "awaitHandler"
        /\ \E s \in ConcurrentSettlements(invocations[a].i) :
            invocations' = [invocations EXCEPT ![a].i = AfterHandler(invocations[a].i, s)]
    /\ UNCHANGED <<handlers, routes, inv, client>>

NextConcurrent ==
    ConcurrentInvoke \/ ConcurrentBodyArrives \/ ConcurrentHandlerSettles

ConcurrentSpec == InitConcurrent /\ [][NextConcurrent]_vars

\* the same call with nothing else running: the route function, then the
\* body if it waits for one, then the handler's result if it waits for one
RunAlone(req, o, s) ==
    LET called == RouteFunction(req.method, req.query, req.context, o)
        read == IF called.pc = "awaitBody" THEN AfterBody(called, req.body, o)
                ELSE called
    IN  IF read.pc = "awaitHandler" THEN AfterHandler(read, s) ELSE read

Independent ==
    \A a \in InvocationIds :
        invocations[a].i.pc = "done"
            => LET i == invocations[a].i
                   alone == RunAlone(invocations[a].req, i.outcome, i.settled)
               IN  /\ i.response = alone.response
                   /\ i = alone

Includes(s, pattern) ==
    \E n \in 1..(Len(s) - Len(pattern) + 1) :
        SubSeq(s, n, n + Len(pattern) - 1) = pattern

IndexOf(s, pattern) ==
    CHOOSE n \in 1..(Len(s) - Len(pattern) + 1) :
        /\ SubSeq(s, n, n + Len(pattern) - 1) = pattern
        /\ \A m \in 1..(n - 1) : SubSeq(s, m, m + Len(pattern) - 1) # pattern

\* the replacement text of String.prototype.replace: "$&" stands for the
\* matched text
RECURSIVE GetSubstitution(_, _)
GetSubstitution(matched, replacement) ==
    IF replacement = <<>> THEN <<>>
    ELSE (IF Head(replacement) = "$&" THEN matched ELSE <<Head(replacement)>>)
            \o GetSubstitution(matched, Tail(replacement))

\* s.replace(pattern, replacement), pattern a string: the first occurrence only
Replace(s, pattern, replacement) ==
    IF ~Includes(s, pattern) THEN s
    ELSE LET n == IndexOf(s, pattern)
         IN  SubSeq(s, 1, n - 1) \o GetSubstitution(pattern, replacement)
                \o SubSeq(s, n + Len(pattern), Len(s))

\* `[${key}]`
Placeholder(key) == <<"[", key, "]">>

\* String(value)
String(value) == IF value = Undefined THEN <<"undefined">> ELSE value.s

\* Object.entries(params).reduce((route, [key, value]) => route.replace(...), path)
RECURSIVE buildRoute(_, _)
buildRoute(path, params) ==
    IF params = <<>> THEN path
    ELSE LET n == Len(params)
         IN  Replace(buildRoute(path, SubSeq(params, 1, n - 1)),
                     Placeholder(params[n][1]), params[n][2].s)

\* if (input && typeof input === "object") Object.entries(input)
EntriesOf(input) == IF input = Undefined THEN <<>> ELSE input.entries

\* the loop of useQuery over the entries of input
RECURSIVE QueryLoop(_, _)
QueryLoop(route, entries) ==
    IF entries = <<>>
    THEN [finalRoute |-> route, params |-> <<>>, queryParams |-> <<>>]
    ELSE LET n == Len(entries)
             key == entries[n][1]
             value == entries[n][2]
             acc == QueryLoop(route, SubSeq(entries, 1, n - 1))
         IN  IF Includes(acc.finalRoute, Placeholder(key))
             THEN [acc EXCEPT !.finalRoute = Replace(@, Placeholder(key), String(value)),
                              !.params = Append(@, <<key, value>>)]
             ELSE [acc EXCEPT !.queryParams = Append(@, <<key, value>>)]

\* the percent-encoding of application/x-www-form-urlencoded
Encode(atom) ==
    CASE atom = "[" -> "%5B"
      [] atom = "]" -> "%5D"
      [] atom = "$&" -> "%24%26"
      [] OTHER -> atom

\* new URLSearchParams(queryParams).toString()
RECURSIVE URLSearchParams(_)
URLSearchParams(entries) ==
    IF entries = <<>> THEN <<>>
    ELSE LET e == Head(entries)
             value == String(e[2])
             pair == <<Encode(e[1]), "=">> \o [n \in DOMAIN value |-> Encode(value[n])]
         IN  IF Tail(entries) = <<>> THEN pair
             ELSE pair \o <<"&">> \o URLSearchParams(Tail(entries))

QueryString(queryParams) ==
    IF Len(queryParams) > 0 THEN <<"?">> \o URLSearchParams(queryParams) ELSE <<>>

\* variant: a query is made only when enabled is true
QueryKeyWhenTrue(options, finalRoute, queryString) ==
    IF options # Undefined /\ options.enabled = JsTrue
    THEN Str(finalRoute \o queryString)
    ELSE JsonNull

\* options?.enabled !== false ? `${finalRoute}${queryString}` : null
QueryKey(options, finalRoute, queryString) ==
    IF ~(options # Undefined /\ options.enabled = JsFalse)
    THEN Str(finalRoute \o queryString)
    ELSE JsonNull

\* useSWR(key, fetcher, ...): a null key makes no request and touches no entry;
\* another key subscribes to its entry and requests its URL
SWRCache(key) ==
    IF key = JsonNull THEN cache
    ELSE [k \in (DOMAIN cache) \cup {key} |->
            IF k = key
            THEN Entry(IF key \in DOMAIN cache THEN cache[key].data ELSE None, TRUE)
            ELSE cache[k]]

SWRRequests(key) ==
    IF key = JsonNull THEN requests ELSE requests \cup {key.s}

useQuery(route, input, options) ==
    LET loop == QueryLoop(route, EntriesOf(input))
        queryString == QueryString(loop.queryParams)
        key == QueryKey(options, loop.finalRoute, queryString)
    IN  /\ call' = [op |-> "useQuery", route |-> route, input |-> input,
                    options |-> options, finalRoute |-> loop.finalRoute,
                    params |-> loop.params, queryParams |-> loop.queryParams,
                    queryString |-> queryString, key |-> key,
                    cacheBefore |-> cache]
        /\ cache' = SWRCache(key)
        /\ requests' = SWRRequests(key)

InitClient ==
    /\ handlers = UsersRoute
    /\ routes = createApiHandler(handlers)
    /\ inv = Idle
    /\ call = None
    /\ cache \in CacheSeeds
    /\ requests = {}
    /\ mutations = None
    /\ invocations = None

\* a component renders with a query
UseQuery ==
    /\ call = None
    /\ \E route \in Templates, input \in Inputs, options \in QueryOptions :
            useQuery(route, input, options)
    /\ UNCHANGED <<mutations, server>>

\* a caller builds a URL
BuildRoute ==
    /\ call = None
    /\ \E path \in Templates, params \in RouteParams :
            call' = [op |-> "buildRoute", route |-> path, input |-> params,
                     result |-> Str(buildRoute(path, params))]
    /\ UNCHANGED <<cache, requests, mutations, server>>

\* the request of a query is answered: its entry takes the data
FetchSettles ==
    /\ \E url \in requests :
            /\ requests' = requests \ {url}
            /\ cache' = [cache EXCEPT ![Str(url)] = Entry(ServerData, FALSE)]
    /\ UNCHANGED <<call, mutations, server>>

\* the component goes away: what remains in the cache is at most the entry
\* of an earlier query of /api/users
Unmount ==
    /\ call # None
    /\ call' = None
    /\ cache' \in CacheSeeds
    /\ requests' = {}
    /\ UNCHANGED <<mutations, server>>

NextClient == UseQuery \/ BuildRoute \/ FetchSettles \/ Unmount

ClientSpec == InitClient /\ [][NextClient]_vars

(***************************************************************************)
(* Properties of the client helper.                                        *)
(***************************************************************************)
HasKey(entries, key) == \E n \in DOMAIN entries : entries[n][1] = key
ValueOf(entries, key) ==
    entries[CHOOSE n \in DOMAIN entries : entries[n][1] = key][2]

\* the template with each placeholder whose name is a key of the entries
\* replaced by that key's value, everything else as it is
RECURSIVE Substituted(_, _)
Substituted(template, entries) ==
    IF template = <<>> THEN <<>>
    ELSE IF /\ Len(template) >= 3
            /\ template[1] = "["
            /\ template[3] = "]"
            /\ HasKey(entries, template[2])
         THEN String(ValueOf(entries, template[2]))
                \o Substituted(SubSeq(template, 4, Len(template)), entries)
         ELSE <<Head(template)>> \o Substituted(Tail(template), entries)

\* C8 as stated: buildRoute returns the template with every placeholder whose
\* name is a key of params replaced by the value of that key, and every other
\* placeholder and all other text unchanged.
C8_PlaceholdersReplaced ==
    (call # None /\ call.op = "buildRoute")
        => call.result = Str(Substituted(call.route, call.input))

InTemplate(route, entry) == Includes(route, Placeholder(entry[1]))

\* C9 as stated: useQuery takes as path parameters exactly the input keys
\* whose placeholder is in the route template and as query parameters all
\* others; the key is the template with the path parameters substituted,
\* then "?" and the serialized query parameters if there is one.
C9_PartitionByTemplate ==
    (call # None /\ call.op = "useQuery")
        => LET entries == EntriesOf(call.input)
               path == SelectSeq(entries, LAMBDA e : InTemplate(call.route, e))
               query == SelectSeq(entries, LAMBDA e : ~InTemplate(call.route, e))
           IN  /\ call.params = path
               /\ call.queryParams = query
               /\ call.key # JsonNull =>
                    call.key = Str(Substituted(call.route, path)
                                    \o (IF query = <<>> THEN <<>>
                                        ELSE <<"?">> \o URLSearchParams(query)))

Disabled == call.options # Undefined /\ call.options.enabled = JsFalse

\* C10: with enabled false the key of useQuery is null, no request is made
\* and the cache is as it was before the call; with any other value of
\* enabled the key is the resolved route followed by the query string, never
\* null, and its URL is requested.
C10_DisabledQueryHasNullKey ==
    (call # None /\ call.op = "useQuery")
        => /\ Disabled =>
                /\ call.key = JsonNull
                /\ requests = {}
                /\ cache = call.cacheBefore
           /\ ~Disabled =>
                /\ call.key # JsonNull
                /\ call.key = Str(call.finalRoute \o call.queryString)
                /\ call.key \in DOMAIN cache
                /\ \/ call.key.s \in requests /\ cache[call.key].isValidating
                   \/ cache[call.key] = Entry(ServerData, FALSE)

\* a disabled query of /api/users while the cache holds the entry of that key
C10_Witness ==
    /\ call # None
    /\ call.op = "useQuery"
    /\ Disabled
    /\ call.route = <<"/api/users">>
    /\ call.input = Undefined
    /\ call.key = JsonNull
    /\ cache = [k \in {Str(<<"/api/users">>)} |-> Entry(CachedData, FALSE)]

(***************************************************************************)
(* The client helper: fetcher (lib/api-builder.ts 171-186) and             *)
(* createClient().useMutation (lib/api-builder.ts 249-333).                *)
(*                                                                         *)
(* A call of trigger runs in pieces separated by its awaits: the           *)
(* optimistic write (line 298, only with optimistic data) and the network  *)
(* call (line 301).  The cache library is used through mutate(): writing a *)
(* key without revalidation, revalidating a key, and clearing and          *)
(* revalidating every key that a filter accepts; revalidating a key is     *)
(* requesting it again.                                                    *)
(***************************************************************************)
\* the hooks of the components: useMutation(route, method), one on a route
\* without placeholder and two on a route with one
Hooks ==
    {[route |-> <<"/api/users">>, method |-> "POST"],
     [route |-> <<"/api/users", "/", "[", "id", "]">>, method |-> "PUT"],
     [route |-> <<"/api/users", "/", "[", "id", "]">>, method |-> "DELETE"]}

\* optimistic data: none, an object, and a value that is data but falsy
OptimisticObject == [t |-> "data", from |-> "optimistic"]
Zero == [t |-> "number", n |-> 0]
OptimisticValues == {Undefined, OptimisticObject, Zero}
Flags == {Undefined, JsTrue, JsFalse}
TriggerOptions ==
    {Undefined} \cup
        [optimisticData : OptimisticValues, rollbackOnError : Flags, revalidate : Flags]

\* the truth value of a JavaScript value in a condition
Truthy(v) ==
    /\ v.t \notin {"undefined", "null"}
    /\ v.t = "number" => v.n # 0
    /\ v.t = "boolean" => v.b
    /\ v.t = "str" => v.s # ""

\* options?.optimisticData, options?.rollbackOnError, options?.revalidate
OptimisticDataOf(options) ==
    IF options = Undefined THEN Undefined ELSE options.optimisticData
RollbackOnErrorOf(options) ==
    IF options = Undefined THEN Undefined ELSE options.rollbackOnError
RevalidateOf(options) ==
    IF options = Undefined THEN Undefined ELSE options.revalidate

\* the loop of the mutation function over the entries of input
RECURSIVE MutationLoop(_, _)
MutationLoop(route, entries) ==
    IF entries = <<>>
    THEN [finalRoute |-> route, bodyData |-> <<>>]
    ELSE LET n == Len(entries)
             key == entries[n][1]
             value == entries[n][2]
             acc == MutationLoop(route, SubSeq(entries, 1, n - 1))
         IN  IF Includes(acc.finalRoute, Placeholder(key))
             THEN [acc EXCEPT !.finalRoute = Replace(@, Placeholder(key), String(value))]
             ELSE [acc EXCEPT !.bodyData = Append(@, <<key, value>>)]

\* JSON.stringify(bodyData): a property whose value is undefined has no text
Defined(entry) == entry[2] # Undefined
Stringify(bodyData) == [t |-> "json", entries |-> SelectSeq(bodyData, Defined)]

\* the request of the mutation function: fetcher(finalRoute, options)
mutationFn(route, method, input) ==
    LET loop == MutationLoop(route, EntriesOf(input))
    IN  [url |-> loop.finalRoute, method |-> method,
         body |-> IF Len(loop.bodyData) > 0 /\ method # "DELETE"
                  THEN Stringify(loop.bodyData)
                  ELSE None]

\* variant: the route left as the template
BaseRouteUnresolved(route, entries) == route

\* the loop of trigger over the entries of input (lines 305-312)
RECURSIVE BaseRouteLoop(_, _)
BaseRouteLoop(route, entries) ==
    IF entries = <<>> THEN route
    ELSE LET n == Len(entries)
             key == entries[n][1]
             value == entries[n][2]
             baseRoute == BaseRouteLoop(route, SubSeq(entries, 1, n - 1))
         IN  IF Includes(baseRoute, Placeholder(key))
             THEN Replace(baseRoute, Placeholder(key), String(value))
             ELSE baseRoute

\* what fetch() may settle with: the responses the request adapter makes (its
\* 200, 405, 400 and 500), responses that are not its own, and no response
NotJson == [t |-> "html"]
AdapterResponses(method) ==
    {ResponseJson(JsonObj([id |-> "a"]), 200).response,
     ResponseJson(ErrorBody("Method " \o method \o " not allowed"), 405).response,
     ResponseJson(ValidationBody(Issues(UserIdSchema, EmptyMap)), 400).response}
        \cup {ResponseJson(ErrorBody(MessageOf(e)), 500).response : e \in ThrownValues}
OtherResponses ==
    {[status |-> 502, body |-> NotJson], [status |-> 404, body |-> JsonObj(EmptyMap)],
     [status |-> 500, body |-> JsonNull], [status |-> 200, body |-> NotJson]}
NetworkFailure == [t |-> "failed"]
FetchOutcomes(method) ==
    AdapterResponses(method) \cup OtherResponses \cup {NetworkFailure}

\* res.ok
ResOk(res) == res.status >= 200 /\ res.status <= 299

\* res.json()
ResJson(res) ==
    IF res.body = NotJson
    THEN Thrown(ErrorOf("Unexpected token < in JSON"))
    ELSE Ok(res.body)

\* error.error
ErrorProperty(v) ==
    CASE v.t = "obj" -> IF "error" \in DOMAIN v.o THEN JsonStr(v.o.error) ELSE Undefined
      [] v.t = "validation" -> JsonStr(v.error)
      [] OTHER -> Undefined

\* variant: the message of the body never used
FailureGeneric(res) == Thrown(ErrorOf("Request failed"))

\* if (!res.ok) { ... throw new Error(error.error || "Request failed") }
Failure(res) ==
    LET parsed == ResJson(res)
        error == IF parsed.t = "throw" THEN JsonObj([error |-> "Network error"])
                 ELSE parsed.v
    IN  IF error = JsonNull
        THEN Thrown(ErrorOf("Cannot read properties of null"))
        ELSE IF Truthy(ErrorProperty(error))
             THEN Thrown(ErrorOf(ErrorProperty(error).s))
             ELSE Thrown(ErrorOf("Request failed"))

\* fetcher, from the outcome of fetch() to its own
fetcher(res) ==
    IF res = NetworkFailure THEN Thrown(ErrorOf("Failed to fetch"))
    ELSE IF ~ResOk(res) THEN Failure(res)
         ELSE ResJson(res)

\* key.startsWith(baseRoute)
StartsWith(s, prefix) ==
    Len(prefix) <= Len(s) /\ SubSeq(s, 1, Len(prefix)) = prefix

\* variant: only the key that is the route itself
MatchesExactly(key, baseRoute) == key.s = baseRoute

\* (key) => typeof key === "string" && key.startsWith(baseRoute)
MatchesPrefix(key, baseRoute) == key.t = "string" /\ StartsWith(key.s, baseRoute)

\* mutate(key, data, false): the entry holds data, nothing is requested and a
\* request of the key still in flight no longer counts
MutateData(key, data) ==
    [cache |-> [k \in (DOMAIN cache) \cup {key} |->
                    IF k = key THEN Entry(data, FALSE) ELSE cache[k]],
     requests |-> requests \ {key.s}]

\* variant: the key left alone
MutateKeyNothing(key) == [cache |-> cache, requests |-> requests]

\* mutate(key): the entry keeps its data and is requested again
MutateKey(key) ==
    [cache |-> [k \in DOMAIN cache |->
                    IF k = key THEN Entry(cache[k].data, TRUE) ELSE cache[k]],
     requests |-> IF key \in DOMAIN cache THEN requests \cup {key.s} ELSE requests]

\* mutate(filter, undefined, {revalidate: true}): every entry whose key the
\* filter accepts loses its data and is requested again
MutateMatching(baseRoute) ==
    LET keys == {k \in DOMAIN cache : MatchesPrefix(k, baseRoute)}
    IN  [cache |-> [k \in DOMAIN cache |->
                        IF k \in keys THEN Entry(None, TRUE) ELSE cache[k]],
         requests |-> requests \cup {k.s : k \in keys}]

NewTrigger(input, options) ==
    [pc |-> "called", input |-> input, options |-> options, request |-> None,
     settled |-> None, baseRoute |-> None, result |-> None]
NoTrigger == [NewTrigger(Undefined, Undefined) EXCEPT !.pc = "idle"]

Route == mutations.hook.route
Method == mutations.hook.method

\* trigger(input, options), to its first await
Trigger(t, inputs, optionsGiven) ==
    /\ mutations.calls[t].pc = "idle"
    /\ \E input \in inputs, options \in optionsGiven :
        LET m == NewTrigger(input, options)
        IN  IF Truthy(OptimisticDataOf(options))
            THEN LET w == MutateData(Str(Route), OptimisticDataOf(options))
                 IN  /\ cache' = w.cache
                     /\ requests' = w.requests
                     /\ mutations' = [mutations EXCEPT
                                        !.calls[t] = [m EXCEPT !.pc = "optimistic"]]
            ELSE /\ mutations' = [mutations EXCEPT !.calls[t] =
                        [m EXCEPT !.pc = "awaitFetch",
                                  !.request = mutationFn(Route, Method, input)]]
                 /\ UNCHANGED <<cache, requests>>
    /\ UNCHANGED <<call, server>>

\* the optimistic write awaited: the mutation function is called
MutationFn(t) ==
    /\ mutations.calls[t].pc = "optimistic"
    /\ LET m == mutations.calls[t]
       IN  mutations' = [mutations EXCEPT !.calls[t] =
                [m EXCEPT !.pc = "awaitFetch",
                          !.request = mutationFn(Route, Method, m.input)]]
    /\ UNCHANGED <<call, cache, requests, server>>

\* the network call settles: the rest of the try block, or the catch clause
Settles(t, outcomes) ==
    /\ mutations.calls[t].pc = "awaitFetch"
    /\ \E res \in outcomes :
        LET m == [mutations.calls[t] EXCEPT !.settled = res, !.pc = "done"]
            result == fetcher(res)
        IN  IF result.t = "ok"
            THEN IF RevalidateOf(m.options) # JsFalse
                 THEN LET baseRoute == BaseRouteLoop(Route, EntriesOf(m.input))
                          w == MutateMatching(baseRoute)
                      IN  /\ cache' = w.cache
                          /\ requests' = w.requests
                          /\ mutations' = [mutations EXCEPT !.calls[t] =
                                [m EXCEPT !.baseRoute = Str(baseRoute), !.result = result]]
                 ELSE /\ mutations' = [mutations EXCEPT !.calls[t] =
                                [m EXCEPT !.result = result]]
                      /\ UNCHANGED <<cache, requests>>
            ELSE /\ mutations' = [mutations EXCEPT !.calls[t] =
                                [m EXCEPT !.result = result]]
                 /\ IF RollbackOnErrorOf(m.options) # JsFalse
                        /\ Truthy(OptimisticDataOf(m.options))
                    THEN LET w == MutateKey(Str(Route))
                         IN  cache' = w.cache /\ requests' = w.requests
                    ELSE UNCHANGED <<cache, requests>>
    /\ UNCHANGED <<call, server>>

\* the entries of the queries that are mounted when the hook is made
MountedKeys ==
    {Str(<<"/api/users">>), Str(<<"/api/users", "/", "42">>),
     Str(<<"/api/users", "/", "42", "0">>), Str(<<"/api/users", "?", "limit", "=", "42">>),
     Str(<<"/api/posts", "/", "42">>)}
MountedCache == [k \in MountedKeys |-> Entry(CachedData, FALSE)]

InitMutation ==
    /\ handlers = UsersRoute
    /\ routes = createApiHandler(handlers)
    /\ inv = Idle
    /\ call = None
    /\ cache = MountedCache
    /\ requests = {}
    /\ mutations \in {[hook |-> h, calls |-> [t \in {"T1"} |-> NoTrigger]] : h \in Hooks}
    /\ invocations = None

\* a component calls trigger, one call at a time
TriggerCalled == Trigger("T1", Inputs, TriggerOptions)
MutationFnCalled == MutationFn("T1")
NetworkSettles == Settles("T1", FetchOutcomes(Method))

\* the caller has taken the result or the error of trigger; the component
\* goes away and is mounted again with its queries
Remount ==
    /\ mutations.calls["T1"].pc = "done"
    /\ mutations' = [mutations EXCEPT !.calls["T1"] = NoTrigger]
    /\ cache' = MountedCache
    /\ requests' = {}
    /\ UNCHANGED <<call, server>>

NextMutation == TriggerCalled \/ MutationFnCalled \/ NetworkSettles \/ Remount

MutationSpec == InitMutation /\ [][NextMutation]_vars

(***************************************************************************)
(* Two calls of trigger of one hook at the same time.  Nothing in trigger  *)
(* orders them: each runs from await to await, and the requests of the     *)
(* queries that were told to refetch settle in between.                    *)
(***************************************************************************)
RaceIds == {"T1", "T2"}
RaceInputs == {Undefined, JsObject(<<(<<"id", Str(<<"42">>)>>)>>)}
RaceOptions ==
    {Undefined} \cup
        [optimisticData : {Undefined, OptimisticObject},
         rollbackOnError : {Undefined, JsFalse}, revalidate : {Undefined, JsFalse}]
RaceOutcomes ==
    {ResponseJson(JsonObj([id |-> "a"]), 200).response,
     ResponseJson(ErrorBody(MessageOf(ErrorOf("boom"))), 500).response}

InitRace ==
    /\ handlers = UsersRoute
    /\ routes = createApiHandler(handlers)
    /\ inv = Idle
    /\ call = None
    /\ cache = MountedCache
    /\ requests = {}
    /\ mutations \in {[hook |-> h, calls |-> [t \in RaceIds |-> NoTrigger]] : h \in Hooks}
    /\ invocations = None

RaceTrigger == \E t \in RaceIds : Trigger(t, RaceInputs, RaceOptions)
RaceMutationFn == \E t \in RaceIds : MutationFn(t)
RaceSettles == \E t \in RaceIds : Settles(t, RaceOutcomes)

NextRace == RaceTrigger \/ RaceMutationFn \/ RaceSettles \/ FetchSettles

RaceSpec == InitRace /\ [][NextRace]_vars

(***************************************************************************)
(* Properties of the mutation hook.                                        *)
(***************************************************************************)
TriggerIds == DOMAIN mutations.calls
TriggerCall(t) == mutations.calls[t]
NotInTemplate(entry) == ~InTemplate(Route, entry)

\* C11 as stated: the request of a mutation has a body exactly when the
\* method is not DELETE and some input key is not a path parameter of the
\* template, and the body is the JSON of exactly the input fields that are
\* not path parameters of the template.
C11_BodyIsNonPathFields ==
    \A t \in TriggerIds :
        TriggerCall(t).request # None
            => LET request == TriggerCall(t).request
                   rest == SelectSeq(EntriesOf(TriggerCall(t).input), NotInTemplate)
               IN  /\ (request.body # None) <=> (Method # "DELETE" /\ rest # <<>>)
                   /\ request.body # None => request.body = Stringify(rest)


\* the step in which the network call of trigger t settles
Settling(t) ==
    /\ TriggerCall(t).pc = "awaitFetch"
    /\ mutations'.calls[t].pc = "done"
Succeeding(t) == Settling(t) /\ mutations'.calls[t].result.t = "ok"
Revalidating(t) == RevalidateOf(TriggerCall(t).options) # JsFalse

\* the step marks the entry of key k stale and requests it again
Invalidates(k) ==
    /\ k \in DOMAIN cache'
    /\ cache'[k] = Entry(None, TRUE)
    /\ k.s \in requests'
    /\ cache[k] # cache'[k] \/ k.s \notin requests

\* the step invalidates exactly the entries whose key starts with prefix
InvalidatesByPrefix(prefix) ==
    \A k \in DOMAIN cache :
        IF StartsWith(k.s, prefix) THEN Invalidates(k) ELSE cache'[k] = cache[k]

\* the template with the path parameters of the input substituted
TemplateResolved(t) ==
    Substituted(Route, SelectSeq(EntriesOf(TriggerCall(t).input),
                                 LAMBDA e : InTemplate(Route, e)))

Failing(t) == Settling(t) /\ mutations'.calls[t].result.t = "throw"
Supplied(t) == OptimisticDataOf(mutations'.calls[t].options) # Undefined
RollbackWanted(t) == RollbackOnErrorOf(mutations'.calls[t].options) # JsFalse

\* the step requests the key of the route again
ForcesRefetch ==
    /\ Str(Route) \in DOMAIN cache'
    /\ cache'[Str(Route)].isValidating
    /\ Route \in requests'

\* C13 as stated: when the network call of a trigger rejects, the error of
\* the call is the error of trigger; the key of the route is forced to
\* refetch if optimistic data was given and rollbackOnError is not false, and
\* nothing is refetched otherwise.
C13_RollbackRefetchesAndRethrows ==
    [][\A t \in TriggerIds :
        Failing(t)
            => /\ mutations'.calls[t].result = fetcher(mutations'.calls[t].settled)
               /\ IF Supplied(t) /\ RollbackWanted(t)
                  THEN ForcesRefetch
                  ELSE cache' = cache /\ requests' = requests]_vars

\* the step in which trigger t is called
Calling(t) ==
    /\ TriggerCall(t).pc = "idle"
    /\ mutations'.calls[t].pc # "idle"

\* C14 as stated: a trigger called with optimistic data sets the entry of the
\* template key to that value, without revalidation, before the request is
\* issued; a trigger called without it writes no entry before the request.
C14_OptimisticWrittenFirst ==
    [][\A t \in TriggerIds :
        Calling(t)
            => IF Supplied(t)
               THEN /\ Str(Route) \in DOMAIN cache'
                    /\ cache'[Str(Route)] =
                         Entry(OptimisticDataOf(mutations'.calls[t].options), FALSE)
                    /\ Route \notin requests'
                    /\ mutations'.calls[t].request = None
               ELSE cache' = cache /\ requests' = requests]_vars


\* the calls of trigger whose request was answered with a status outside 2xx
AnsweredNot2xx(t) ==
    /\ TriggerCall(t).pc = "done"
    /\ TriggerCall(t).settled # NetworkFailure
    /\ ~ResOk(TriggerCall(t).settled)
ErrorString(body) ==
    CASE body.t = "obj" /\ "error" \in DOMAIN body.o -> JsonStr(body.o.error)
      [] body.t = "validation" -> JsonStr(body.error)
      [] OTHER -> Undefined
Thrower(message) == Thrown(ErrorOf(message))

\* C15 as stated: for a response that is not 2xx the fetch helper throws an
\* error whose message is the error string of the body when the body is JSON
\* and a generic message when it is not, so a 405, 400 or 500 of the request
\* adapter fails the trigger with exactly the adapter's error message.
C15_ThrowsServerMessage ==
    \A t \in TriggerIds :
        AnsweredNot2xx(t)
            => LET res == TriggerCall(t).settled
                   result == TriggerCall(t).result
               IN  /\ result.t = "throw"
                   /\ result.e.t = "Error"
                   /\ IF res.body = NotJson
                      THEN result.e.message \in {"Network error", "Request failed"}
                      ELSE JsonStr(result.e.message) = ErrorString(res.body)

\* C15 amended: for a response that is not 2xx the fetch helper always
\* throws; the message is the error string of the body when the body is a
\* JSON object with a non-empty one, "Request failed" when the body is JSON
\* with no error string or an empty one, "Network error" when the body is not
\* JSON; a response of the request adapter fails the trigger with the
\* adapter's message unless that message is empty.
C15_ThrowsNonEmptyServerMessage ==
    \A t \in TriggerIds :
        AnsweredNot2xx(t)
            => LET res == TriggerCall(t).settled
                   result == TriggerCall(t).result
                   error == ErrorString(res.body)
               IN  /\ result.t = "throw"
                   /\ result.e.t = "Error"
                   /\ res.body = NotJson => result = Thrower("Network error")
                   /\ (error # Undefined /\ error.s # "") => result = Thrower(error.s)
                   /\ (res.body \notin {NotJson, JsonNull}
                            /\ (error = Undefined \/ error = JsonStr("")))
                        => result = Thrower("Request failed")
                   /\ (res \in AdapterResponses(Method) /\ error # JsonStr(""))
                        => result = Thrower(error.s)

\* the 400 of a validator fails the trigger with "Validation failed"
C15_Witness ==
    /\ TriggerCall("T1").pc = "done"
    /\ TriggerCall("T1").settled =
            ResponseJson(ValidationBody(Issues(UserIdSchema, EmptyMap)), 400).response
    /\ TriggerCall("T1").result = Thrower("Validation failed")


\* the same entries in every order
Reorderings(entries) ==
    {[n \in DOMAIN entries |-> entries[p[n]]] :
        p \in {q \in [DOMAIN entries -> DOMAIN entries] :
                    \A m, n \in DOMAIN entries : q[m] = q[n] => m = n}}
AsSet(entries) == {entries[n] : n \in DOMAIN entries}

\* C16 as stated: the concrete route and the leftover fields that useQuery,
\* the mutation function and buildRoute compute are the same for every order
\* of the keys of the input.
C16_OrderIndependent ==
    /\ (call # None /\ call.op = "useQuery")
        => \A p \in Reorderings(EntriesOf(call.input)) :
                LET loop == QueryLoop(call.route, p)
                IN  /\ loop.finalRoute = call.finalRoute
                    /\ AsSet(loop.queryParams) = AsSet(call.queryParams)
    /\ (call # None /\ call.op = "buildRoute")
        => \A p \in Reorderings(call.input) :
                Str(buildRoute(call.route, p)) = call.result
    /\ mutations # None
        => \A t \in TriggerIds :
                TriggerCall(t).request # None
                    => LET entries == EntriesOf(TriggerCall(t).input)
                       IN  \A p \in Reorderings(entries) :
                            LET loop == MutationLoop(Route, p)
                            IN  /\ loop.finalRoute = TriggerCall(t).request.url
                                /\ AsSet(loop.bodyData) =
                                     AsSet(MutationLoop(Route, entries).bodyData)


RollingBack(t) ==
    /\ Failing(t)
    /\ RollbackWanted(t)
    /\ Truthy(OptimisticDataOf(TriggerCall(t).options))

C20_PrefixIsRequestUrl ==
    \A t \in TriggerIds :
        /\ (TriggerCall(t).pc = "done" /\ TriggerCall(t).result.t = "ok" /\ Revalidating(t))
            => TriggerCall(t).baseRoute = Str(TriggerCall(t).request.url)
        /\ TriggerCall(t).request # None
            => BaseRouteLoop(Route, EntriesOf(TriggerCall(t).input))
                    = TriggerCall(t).request.url

\* an input whose first value reads like the placeholder of its second key:
\* both loops substitute twice and arrive at /api/users/42
C20_Witness ==
    /\ TriggerCall("T1").pc = "done"
    /\ TriggerCall("T1").result.t = "ok"
    /\ TriggerCall("T1").input =
            JsObject(<<(<<"id", Str(<<"[", "limit", "]">>)>>), (<<"limit", Str(<<"42">>)>>)>>)
    /\ TriggerCall("T1").request.url = <<"/api/users", "/", "42">>
    /\ TriggerCall("T1").baseRoute = Str(<<"/api/users", "/", "42">>)


(***************************************************************************)
(* One call of trigger followed to its end, with the requests of the       *)
(* queries that it told to refetch.  The promises that trigger awaits are  *)
(* settled by the runtime: the optimistic write resolves (line 298), the   *)
(* network call resolves or rejects (line 301), and a request that the     *)
(* cache library has issued is answered.  Nothing makes a component call   *)
(* trigger.                                                                *)
(***************************************************************************)
NextRevalidation == TriggerCalled \/ MutationFnCalled \/ NetworkSettles \/ FetchSettles

RevalidationSpec ==
    /\ InitMutation
    /\ [][NextRevalidation]_vars
    /\ WF_vars(MutationFnCalled)
    /\ WF_vars(NetworkSettles)
    /\ WF_vars(FetchSettles)

\* trigger has written optimistic data, succeeded and revalidated
OptimisticRevalidated(t) ==
    /\ TriggerCall(t).pc = "done"
    /\ TriggerCall(t).result.t = "ok"
    /\ Revalidating(t)
    /\ Truthy(OptimisticDataOf(TriggerCall(t).options))

\* the entry that the optimistic write wrote holds data of the server
ServerDataAtRouteKey ==
    /\ Str(Route) \in DOMAIN cache
    /\ cache[Str(Route)].data = ServerData

\* the step in which such a trigger succeeds invalidates the entry that its
\* optimistic write wrote
OptimisticEntryInvalidated ==
    [][\A t \in TriggerIds :
        (Succeeding(t) /\ Revalidating(t)
            /\ Truthy(OptimisticDataOf(TriggerCall(t).options)))
            => Invalidates(Str(Route))]_vars

\* from then on the entry eventually holds data of the server
OptimisticEventuallyReplaced ==
    \A t \in {"T1"} : OptimisticRevalidated(t) ~> ServerDataAtRouteKey

\* C21 as stated: when a trigger that wrote optimistic data succeeds with
\* revalidate not false, the entry that holds the optimistic value is among
\* the entries it invalidates, and for every template and input the
\* optimistic value is eventually replaced by data fetched from the server.
C21_OptimisticEventuallyReplaced ==
    OptimisticEntryInvalidated /\ OptimisticEventuallyReplaced


(***************************************************************************)
(* A mutation from the client to the handler and back: the request of the  *)
(* mutation function is routed by its URL to the route function of the     *)
(* hook's method in the route module of the template, which reads the body *)
(* (line 69), merges it with the path parameters of the router (line 70)   *)
(* and calls the handler; its response settles the network call.           *)
(***************************************************************************)
\* the context the router hands to a route function (line 52): the path
\* parameters, which it reads off the URL segment at the place of the
\* placeholder in the path of the route module; None for a URL that is not
\* of the route
RouterContext(template, url) ==
    IF ~Includes(template, <<"[">>)
    THEN IF url = template THEN EmptyMap ELSE None
    ELSE LET n == IndexOf(template, <<"[">>)
             segment == SubSeq(url, n, Len(url))
         IN  IF /\ Len(url) >= n
                /\ SubSeq(url, 1, n - 1) = SubSeq(template, 1, n - 1)
                /\ \A m \in DOMAIN segment : segment[m] # "/"
             THEN [k \in {template[n + 1]} |-> Str(segment)]
             ELSE None

\* what req.json() finds in the body of the request of the mutation function:
\* nothing when no body was set, else the object of the JSON text
RequestJson(body) ==
    IF body = None THEN BodyAbsent ELSE JsonObj(fromEntries(body.entries))

\* the hook and the route module of its template, whose handlers are plain
\* functions (app/api/users/route.ts, app/api/users/[id]/route.ts 43-65)
InitRoundTrip ==
    /\ mutations \in {[hook |-> h, calls |-> [t \in {"T1"} |-> NoTrigger]] : h \in Hooks}
    /\ handlers = IF Route = <<"/api/users">> THEN UsersRoute ELSE UserIdPlainRoute
    /\ routes = createApiHandler(handlers)
    /\ inv = Idle
    /\ call = None
    /\ cache = MountedCache
    /\ requests = {}
    /\ invocations = None

\* the request reaches the server: the router calls the route function of its
\* method with the path parameters of its URL; the handler returns or throws
RequestRouted ==
    /\ mutations.calls["T1"].pc = "awaitFetch"
    /\ Quiet
    /\ LET request == mutations.calls["T1"].request
           context == RouterContext(Route, request.url)
       IN  /\ context # None
           /\ request.method \in routes
           /\ \E o \in {[t |-> "value", v |-> JsonObj([id |-> "a"])],
                        Thrown(ErrorOf("boom"))} :
                inv' = RouteFunction(request.method, <<>>, context, o)
    /\ UNCHANGED <<handlers, routes, invocations, client>>

\* await req.json() of the route function settles with the body of the request
RequestBodyRead ==
    /\ inv.pc = "awaitBody"
    /\ \E o \in {[t |-> "value", v |-> JsonObj([id |-> "a"])],
                 Thrown(ErrorOf("boom"))} :
            inv' = AfterBody(inv, RequestJson(mutations.calls["T1"].request.body), o)
    /\ UNCHANGED <<handlers, routes, invocations, client>>

\* the response of the route function settles the network call of trigger
ResponseArrives ==
    /\ inv.pc = "done"
    /\ inv.response # None
    /\ Settles("T1", {inv.response})

NextRoundTrip ==
    \/ Trigger("T1", Inputs, {Undefined})
    \/ RequestRouted
    \/ RequestBodyRead
    \/ HandlerSettles
    \/ ResponseArrives

RoundTripSpec == InitRoundTrip /\ [][NextRoundTrip]_vars

\* the names of the placeholders of a template
PlaceholderNames(route) ==
    {route[n + 1] : n \in {m \in 1..(Len(route) - 2) : route[m] = "[" /\ route[m + 2] = "]"}}

\* the input passed to trigger as a mapping, the values of path parameters as
\* strings; a property whose value is undefined and that is no path parameter
\* counts as absent
PassedMapping(input) ==
    LET entries == EntriesOf(input)
        kept == {n \in DOMAIN entries :
                    InTemplate(Route, entries[n]) \/ entries[n][2] # Undefined}
    IN  [k \in {entries[n][1] : n \in kept} |->
            IF Includes(Route, Placeholder(k))
            THEN Str(String(ValueOf(entries, k)))
            ELSE ValueOf(entries, k)]

\* C22 as stated: for a mutation with a method other than GET and DELETE on
\* a route whose handler has no validator, with an input that has a value for
\* every placeholder of the template, the input the handler is called with is
\* the input passed to trigger as a mapping, path-parameter values as strings,
\* also when every input key is a path parameter and no body is sent.
C22_HandlerInputIsTriggerInput ==
    \A t \in {"T1"} :
        (/\ inv.calls = 1
         /\ inv.method \notin {"GET", "DELETE"}
         /\ handlers[inv.method] = PlainHandler
         /\ \A k \in PlaceholderNames(Route) : HasKey(EntriesOf(TriggerCall(t).input), k))
            => inv.handlerInput = PassedMapping(TriggerCall(t).input)

=============================================================================
